---- MODULE Spec2Model ----
(***************************************************************************)
(* A model of src/src/utils.ts of ollama-js: the NDJSON stream decoder     *)
(* parseJSON, the host canonicaliser formatHost, and the request entry     *)
(* points get / head / post / del with the response validator checkOk.     *)
(*                                                                         *)
(* The specifications share the variables; each one runs one component     *)
(* and leaves the variables of the others at their idle values:            *)
(*   SpecStream  one parseJSON invocation and its consumer                 *)
(*   SpecHost    formatHost applied to an input and to its own output      *)
(*   SpecHttp    one call of get / head / post / del                       *)
(*   SpecHeaders one call of fetchWithHeaders, with the header objects     *)
(*   SpecPair    two invocations of parseJSON, interleaved                 *)
(***************************************************************************)
EXTENDS Integers, Sequences, FiniteSets, TLC

VARIABLES
    \* ---- parseJSON (utils.ts 190-227) ----
    stream,       \* bytes the underlying ReadableStream has not delivered yet
    chunksRead,   \* history: the chunks reader.read() has delivered, in order
    locked,       \* itr.locked: a reader holds the stream's lock
    buffer,       \* `buffer`: decoded text of the incomplete last line
    parts,        \* the lines the running for-loop still has to visit
    yielded,      \* history: the values handed to the consumer, in order
    warned,       \* history: the lines reported by console.warn
    spc,          \* position of the generator
    thrown,       \* the error the generator ended with, "none" if none
    pulls,        \* history: how many times the consumer called next()
    sawDone,      \* history: reader.read() has resolved with done
    \* ---- formatHost (utils.ts 233-269) ----
    hostArg,      \* the `host` argument of the first call
    hostResult,   \* what formatHost(hostArg) gave
    hostAgain,    \* what formatHost gave for its own first result
    hpc,          \* "idle", "call", "resolved", "threw", "again"
    \* ---- get / head / post / del, fetchWithHeaders, checkOk (36-184) ----
    method,       \* the entry point called: "get", "head", "post", "del"
    data,         \* its `data` argument
    callerSignal, \* the AbortSignal the caller holds for this call
    requests,     \* history: the option objects handed to fetch, in order
    response,     \* the Response fetch resolved with
    bodyReads,    \* history: the body readers invoked on the response
    logs,         \* history: console.log
    created,      \* history: the ResponseErrors constructed
    outcome,      \* what the call gave its caller
    rejected,     \* the value fetch rejected with
    trace,        \* history: the steps of the call, in order
    rpc,          \* position of the call
    \* ---- fetchWithHeaders and the objects it is given (83-104) ----
    callerHeaders, \* history: options.headers as the caller passed it
    heap,          \* the header objects: reference |-> set of <<name, value>>
    optionsHeaders, \* the reference options.headers holds, or "undefined"
    sentHeaders,   \* the reference of the headers fetch was given, or "none"
    fpc,           \* "idle", "call", "merge", "fetch", "sent"
    \* ---- a second invocation of parseJSON (190-227) ----
    other,         \* the locals and position of the invocation not running now
    mixed          \* history: control changed hands while both were under way

streamVars ==
    <<stream, chunksRead, locked, buffer, parts, yielded, warned, spc, thrown,
      pulls, sawDone>>

hostVars == <<hostArg, hostResult, hostAgain, hpc>>

httpVars ==
    <<method, data, callerSignal, requests, response, bodyReads, logs, created,
      outcome, rejected, trace, rpc>>

headerVars == <<callerHeaders, heap, optionsHeaders, sentHeaders, fpc>>

pairVars == <<other, mixed>>

vars == <<streamVars, hostVars, httpVars, headerVars, pairVars>>

\* the variables a component leaves alone
notStream == <<hostVars, httpVars, headerVars, pairVars>>
notHost == <<streamVars, httpVars, headerVars, pairVars>>
notHttp == <<streamVars, hostVars, headerVars, pairVars>>
notHeaders == <<streamVars, hostVars, httpVars, pairVars>>
notPair == <<hostVars, httpVars, headerVars>>

(***************************************************************************)
(* Bounds                                                                  *)
(***************************************************************************)
\* longest byte stream fed to parseJSON
MaxStream == 4
\* longest byte stream fed to each of two parseJSON invocations run together
MaxPair == 2

(***************************************************************************)
(* Sequence helpers                                                        *)
(***************************************************************************)
RECURSIVE Flatten(_)
Flatten(ss) == IF ss = <<>> THEN <<>> ELSE Head(ss) \o Flatten(Tail(ss))

SeqsUpTo(S, n) == UNION {[1..k -> S] : k \in 0..n}

Last(s) == s[Len(s)]

Front(s) == SubSeq(s, 1, Len(s) - 1)

(***************************************************************************)
(* Bytes and characters.  The stream carries bytes; the characters are     *)
(* code points.  The byte alphabet holds '\n', '"', '1' and the two bytes  *)
(* C3 A9 of the UTF-8 encoding of U+00E9.                                  *)
(***************************************************************************)
NL == 10
QUOTE == 34
DIGIT == 49
LEAD == 195
TRAIL == 169
REPLACEMENT == 65533

Byte == {NL, QUOTE, DIGIT, LEAD, TRAIL}

IsAscii(b) == b < 128
IsLead2(b) == b \in 194..223
IsContinuation(b) == b \in 128..191

\* decoder.decode(chunk) as the code calls it, without {stream: true}: the
\* call decodes the chunk on its own and flushes, so a lead byte with no
\* continuation byte after it in the same chunk, and a continuation byte with
\* no lead byte before it, each become U+FFFD.
RECURSIVE DecodeChunk(_)
DecodeChunk(bytes) ==
    IF bytes = <<>> THEN <<>>
    ELSE LET b == Head(bytes) IN
         IF IsAscii(b) THEN <<b>> \o DecodeChunk(Tail(bytes))
         ELSE IF IsLead2(b) /\ Len(bytes) >= 2 /\ IsContinuation(bytes[2])
              THEN <<(b - 192) * 64 + (bytes[2] - 128)>>
                       \o DecodeChunk(Tail(Tail(bytes)))
              ELSE <<REPLACEMENT>> \o DecodeChunk(Tail(bytes))

\* String.prototype.split('\n'): the segments between newlines; always at
\* least one segment, the last one being what follows the last newline.
RECURSIVE SplitNL(_)
SplitNL(s) ==
    IF \A i \in 1..Len(s) : s[i] # NL THEN <<s>>
    ELSE LET i == CHOOSE j \in 1..Len(s) :
                      s[j] = NL /\ \A k \in 1..(j - 1) : s[k] # NL
         IN <<SubSeq(s, 1, i - 1)>> \o SplitNL(SubSeq(s, i + 1, Len(s)))

\* .filter((p) => p !== '')
RECURSIVE FilterNonEmpty(_)
FilterNonEmpty(ps) ==
    IF ps = <<>> THEN <<>>
    ELSE IF Head(ps) = <<>> THEN FilterNonEmpty(Tail(ps))
         ELSE <<Head(ps)>> \o FilterNonEmpty(Tail(ps))

\* JSON.parse on the texts the alphabet can form: a run of digits is a
\* number, a quoted run of characters without a quote is a string, anything
\* else (the empty text included) is a SyntaxError.
RECURSIVE Repunit(_)
Repunit(n) == IF n = 0 THEN 0 ELSE 10 * Repunit(n - 1) + 1

JSONparse(t) ==
    IF Len(t) >= 1 /\ \A i \in 1..Len(t) : t[i] = DIGIT
    THEN [ok |-> TRUE, type |-> "number", num |-> Repunit(Len(t)), str |-> <<>>]
    ELSE IF /\ Len(t) >= 2
            /\ t[1] = QUOTE
            /\ t[Len(t)] = QUOTE
            /\ \A i \in 2..(Len(t) - 1) : t[i] # QUOTE
         THEN [ok |-> TRUE, type |-> "string", num |-> 0,
               str |-> SubSeq(t, 2, Len(t) - 1)]
         ELSE [ok |-> FALSE, type |-> "SyntaxError", num |-> 0, str |-> <<>>]

(***************************************************************************)
(* Idle values of the components a specification does not run              *)
(***************************************************************************)
\* the header objects of one fetchWithHeaders call: the caller's, the {} of
\* line 95, the object literal of lines 98-101
Refs == {"caller", "empty", "merged"}

HeadersIdle ==
    /\ callerHeaders = [present |-> FALSE, pairs |-> {}]
    /\ heap = [r \in Refs |-> {}]
    /\ optionsHeaders = "undefined"
    /\ sentHeaders = "none"
    /\ fpc = "idle"

\* an invocation of parseJSON that was never made
NoContext ==
    [stream |-> <<>>, chunksRead |-> <<>>, locked |-> FALSE, buffer |-> <<>>,
     parts |-> <<>>, yielded |-> <<>>, warned |-> <<>>, spc |-> "idle",
     thrown |-> "none", pulls |-> 0, sawDone |-> FALSE]

PairIdle ==
    /\ other = NoContext
    /\ mixed = FALSE

HostIdle ==
    /\ hostArg = <<>>
    /\ hostResult = [threw |-> FALSE, value |-> <<>>]
    /\ hostAgain = [threw |-> FALSE, value |-> <<>>]
    /\ hpc = "idle"

(***************************************************************************)
(* JavaScript values that travel as request bodies, and strings.  A string *)
(* is the sequence of its pieces (no piece empty, so <<>> is the one empty *)
(* string); a value is its type and its content.                           *)
(***************************************************************************)
Undefined == [t |-> "undefined", v |-> <<>>]
JsNull == [t |-> "null", v |-> <<>>]
JsString(pieces) == [t |-> "string", v |-> pieces]
\* {key: "value"}, or {} when members is <<>>
PlainObject(members) == [t |-> "object", v |-> members]
\* ["item"], or []
JsArray(items) == [t |-> "array", v |-> items]
\* Uint8Array.of(byte), or an empty one
Uint8ArrayOf(bytes) == [t |-> "Uint8Array", v |-> bytes]

NoOutcome ==
    [kind |-> "none", error |-> <<>>, status_code |-> 0]

NoResponse ==
    [ok |-> FALSE, status |-> 0, statusText |-> <<>>,
     contentType |-> [present |-> FALSE, value |-> <<>>],
     body |-> [readable |-> FALSE, text |-> <<>>]]

HttpIdle ==
    /\ method = "none"
    /\ data = Undefined
    /\ callerSignal = Undefined
    /\ requests = <<>>
    /\ response = NoResponse
    /\ bodyReads = <<>>
    /\ logs = <<>>
    /\ created = <<>>
    /\ outcome = NoOutcome
    /\ rejected = NoOutcome
    /\ trace = <<>>
    /\ rpc = "idle"

(***************************************************************************)
(* parseJSON                                                               *)
(***************************************************************************)
StreamIdle ==
    /\ stream = <<>>
    /\ chunksRead = <<>>
    /\ locked = FALSE
    /\ buffer = <<>>
    /\ parts = <<>>
    /\ yielded = <<>>
    /\ warned = <<>>
    /\ spc = "idle"
    /\ thrown = "none"
    /\ pulls = 0
    /\ sawDone = FALSE

StreamInit ==
    /\ PairIdle
    /\ HostIdle
    /\ HttpIdle
    /\ HeadersIdle
    /\ stream \in SeqsUpTo(Byte, MaxStream)
    /\ chunksRead = <<>>
    /\ locked = FALSE
    /\ buffer = <<>>
    /\ parts = <<>>
    /\ yielded = <<>>
    /\ warned = <<>>
    /\ spc = "start"
    /\ thrown = "none"
    /\ pulls = 0
    /\ sawDone = FALSE

\* The consumer's first next(): the body runs from its top (193-196) up to
\* the first `await reader.read()`.
Start ==
    /\ spc = "start"
    /\ buffer' = <<>>
    /\ locked' = TRUE
    /\ spc' = "read"
    /\ pulls' = pulls + 1
    /\ UNCHANGED <<stream, chunksRead, parts, yielded, warned, thrown, sawDone>>
    /\ UNCHANGED notStream

\* 205-209: the text appended to the buffer, split on newlines.
AppendChunk(buf, chunk) == buf \o DecodeChunk(chunk)

\* reader.read() resolves with a chunk (199-209).  The stream hands over any
\* non-empty prefix of what it still holds.
ReadChunk ==
    /\ spc = "read"
    /\ \E n \in 1..Len(stream) :
          LET chunk == SubSeq(stream, 1, n)
              segs == SplitNL(AppendChunk(buffer, chunk))
          IN /\ stream' = SubSeq(stream, n + 1, Len(stream))
             /\ chunksRead' = Append(chunksRead, chunk)
             /\ buffer' = Last(segs)
             /\ parts' = Front(segs)
    /\ spc' = "loop"
    /\ UNCHANGED <<locked, yielded, warned, thrown, pulls, sawDone>>
    /\ UNCHANGED notStream

\* reader.read() resolves with done (199-203), then 220 computes the lines of
\* the final flush.
ReadDone ==
    /\ spc = "read"
    /\ stream = <<>>
    /\ parts' = FilterNonEmpty(SplitNL(buffer))
    /\ spc' = "flush"
    /\ sawDone' = TRUE
    /\ UNCHANGED <<stream, chunksRead, locked, buffer, yielded, warned, thrown,
                   pulls>>
    /\ UNCHANGED notStream

\* reader.read() rejects: the await throws inside the generator, no handler
\* encloses it, the generator ends with that error.
ReadError ==
    /\ spc = "read"
    /\ spc' = "failed"
    /\ thrown' = "ReadError"
    /\ UNCHANGED <<stream, chunksRead, locked, buffer, parts, yielded, warned,
                   pulls, sawDone>>
    /\ UNCHANGED notStream

\* The catch clause missing: the SyntaxError of JSON.parse ends the generator.
RethrowInvalid(part, at) ==
    /\ thrown' = "SyntaxError"
    /\ spc' = "failed"
    /\ UNCHANGED <<yielded, warned>>

\* 214-216 / 223-225: the catch clause; the loop goes on at `at`.
CatchInvalid(part, at) ==
    /\ warned' = Append(warned, part)
    /\ spc' = at
    /\ UNCHANGED <<yielded, thrown>>

\* The generator not suspending at its yield: the loop goes on at `at` with
\* the value handed over.
TryYieldNoSuspend(at, atYield) ==
    LET r == JSONparse(Head(parts)) IN
    /\ parts' = Tail(parts)
    /\ IF r.ok
       THEN /\ yielded' = Append(yielded, r)
            /\ spc' = at
            /\ UNCHANGED <<warned, thrown>>
       ELSE CatchInvalid(Head(parts), at)

\* 212-216 / 221-225: one iteration of a for-loop, on the first line left.
\* `at` is the loop's own position, `atYield` its suspension at the yield.
TryYield(at, atYield) ==
    LET r == JSONparse(Head(parts)) IN
    /\ parts' = Tail(parts)
    /\ IF r.ok
       THEN /\ yielded' = Append(yielded, r)
            /\ spc' = atYield
            /\ UNCHANGED <<warned, thrown>>
       ELSE CatchInvalid(Head(parts), at)

\* 211-217
LoopPart ==
    /\ spc = "loop"
    /\ parts # <<>>
    /\ TryYield("loop", "loopYield")
    /\ UNCHANGED <<stream, chunksRead, locked, buffer, pulls, sawDone>>
    /\ UNCHANGED notStream

\* the for-loop of 211 is exhausted: back to the top of while (198)
LoopEnd ==
    /\ spc = "loop"
    /\ parts = <<>>
    /\ spc' = "read"
    /\ UNCHANGED <<stream, chunksRead, locked, buffer, parts, yielded, warned,
                   thrown, pulls, sawDone>>
    /\ UNCHANGED notStream

\* 220-226
FlushPart ==
    /\ spc = "flush"
    /\ parts # <<>>
    /\ TryYield("flush", "flushYield")
    /\ UNCHANGED <<stream, chunksRead, locked, buffer, pulls, sawDone>>
    /\ UNCHANGED notStream

\* the for-loop of 220 is exhausted: the generator returns (227)
FlushEnd ==
    /\ spc = "flush"
    /\ parts = <<>>
    /\ spc' = "done"
    /\ UNCHANGED <<stream, chunksRead, locked, buffer, parts, yielded, warned,
                   thrown, pulls, sawDone>>
    /\ UNCHANGED notStream

\* The consumer asks for the next record: the generator resumes after the
\* yield it is suspended at.
Resume ==
    /\ spc \in {"loopYield", "flushYield"}
    /\ spc' = IF spc = "loopYield" THEN "loop" ELSE "flush"
    /\ pulls' = pulls + 1
    /\ UNCHANGED <<stream, chunksRead, locked, buffer, parts, yielded, warned,
                   thrown, sawDone>>
    /\ UNCHANGED notStream

\* The consumer stops early: return() on the generator while it is suspended
\* (at a yield, or before its body started).  The body has no finally block,
\* so nothing of it runs.
Return ==
    /\ spc \in {"start", "loopYield", "flushYield"}
    /\ spc' = "returned"
    /\ UNCHANGED <<stream, chunksRead, locked, buffer, parts, yielded, warned,
                   thrown, pulls, sawDone>>
    /\ UNCHANGED notStream

StreamNext ==
    \/ Start
    \/ ReadChunk
    \/ ReadDone
    \/ ReadError
    \/ LoopPart
    \/ LoopEnd
    \/ FlushPart
    \/ FlushEnd
    \/ Resume
    \/ Return

SpecStream == StreamInit /\ [][StreamNext]_vars

(***************************************************************************)
(* parseJSON: properties                                                   *)
(***************************************************************************)
\* the whole byte stream of the invocation, once it has been read to its end
WholeStream == Flatten(chunksRead) \o stream

\* the text the code has appended to its buffer so far, chunk by chunk
RECURSIVE DecodedChunks(_)
DecodedChunks(cs) ==
    IF cs = <<>> THEN <<>> ELSE DecodeChunk(Head(cs)) \o DecodedChunks(Tail(cs))

\* the values of the lines that parse, in order
RECURSIVE ParsedOf(_)
ParsedOf(ls) ==
    IF ls = <<>> THEN <<>>
    ELSE IF JSONparse(Head(ls)).ok
         THEN <<JSONparse(Head(ls))>> \o ParsedOf(Tail(ls))
         ELSE ParsedOf(Tail(ls))

\* the lines that do not parse, in order
RECURSIVE InvalidOf(_)
InvalidOf(ls) ==
    IF ls = <<>> THEN <<>>
    ELSE IF JSONparse(Head(ls)).ok
         THEN InvalidOf(Tail(ls))
         ELSE <<Head(ls)>> \o InvalidOf(Tail(ls))

\* The records of a byte stream: its UTF-8 text as a whole, cut at the
\* newlines, each line parsed.
RecordsOfText(bytes) == ParsedOf(SplitNL(DecodeChunk(bytes)))

\* some chunk boundary fell between the two bytes of a character
SplitInsideCharacter ==
    \E i \in 1..(Len(chunksRead) - 1) :
        /\ IsLead2(Last(chunksRead[i]))
        /\ IsContinuation(Head(chunksRead[i + 1]))

\* C1: when the sequence has ended normally, the values yielded are exactly
\* the records of the whole stream's text, in order, whatever the chunks were.
C1_YieldsRecordsOfWholeText ==
    spc = "done" => yielded = RecordsOfText(WholeStream)

\* C2: a line that does not parse never ends the sequence with an error and
\* never costs a later line.  While chunks arrive, the values yielded and the
\* lines still to visit make up exactly the parsable complete lines of the
\* text decoded so far, and the lines warned about are exactly the others;
\* after the flush the same holds of all non-empty lines; the generator never
\* ends with a SyntaxError.
C2_InvalidLineIsSkipped ==
    LET text == DecodedChunks(chunksRead)
        complete == Front(SplitNL(text))
        all == complete \o FilterNonEmpty(<<Last(SplitNL(text))>>)
    IN /\ thrown # "SyntaxError"
       /\ spc = "failed" => thrown = "ReadError"
       /\ spc \in {"loop", "loopYield"} =>
             /\ yielded \o ParsedOf(parts) = ParsedOf(complete)
             /\ warned \o InvalidOf(parts) = InvalidOf(complete)
       /\ spc \in {"flush", "flushYield", "done"} =>
             /\ yielded \o ParsedOf(parts) = ParsedOf(all)
             /\ warned \o InvalidOf(parts) = InvalidOf(all)

\* C2 witness: the sequence ended normally after a non-empty line that does not
\* parse was skipped in the read loop and a later line was yielded.
C2_Witness ==
    /\ spc = "done"
    /\ \E i, j \in 1..Len(SplitNL(DecodedChunks(chunksRead))) :
          LET ls == SplitNL(DecodedChunks(chunksRead)) IN
          /\ i < j
          /\ ls[i] # <<>>
          /\ ~JSONparse(ls[i]).ok
          /\ JSONparse(ls[j]).ok
          /\ yielded = <<JSONparse(ls[j])>>
          /\ warned = <<ls[i]>>

\* C3: when a chunk boundary fell inside a character, the text reconstructed
\* and the records yielded are those of the stream read in one piece.
C3_SplitCharacterReconstructed ==
    (spc = "done" /\ SplitInsideCharacter) =>
        /\ DecodedChunks(chunksRead) = DecodeChunk(WholeStream)
        /\ yielded = RecordsOfText(WholeStream)

\* C4: in every terminal state of the invocation (normal end, early return by
\* the consumer, failed read) the stream is not locked.
C4_ReaderReleased ==
    spc \in {"done", "returned", "failed"} => ~locked

\* C17: whenever the generator is at reader.read() (199), the consumer has
\* asked for a record it has not been given yet, no line of the chunks read is
\* left unvisited, every parsable complete line of the text read so far has
\* been yielded, and the stream has not signalled its end; and at any moment
\* the consumer has been handed at most as many records as it asked for.
C17_PullDriven ==
    /\ Len(yielded) <= pulls
    /\ spc \in {"loopYield", "flushYield"} => Len(yielded) = pulls
    /\ spc = "read" =>
          /\ pulls = Len(yielded) + 1
          /\ parts = <<>>
          /\ yielded = ParsedOf(Front(SplitNL(DecodedChunks(chunksRead))))
          /\ ~sawDone
    /\ sawDone => stream = <<>>

\* C17 witness: two chunks were read, the two records they completed were
\* handed over one at a time in the read loop, and the end of the stream was
\* read on the consumer's third request.
C17_Witness ==
    /\ spc = "done"
    /\ sawDone
    /\ Len(chunksRead) = 2
    /\ Len(yielded) = 2
    /\ buffer = <<>>
    /\ pulls = 3

(***************************************************************************)
(* formatHost.  A host string is a sequence of tokens, each token a run of *)
(* characters of one class, and the string is their concatenation: the     *)
(* words (runs of letters, digits and dots that name a scheme or a host),  *)
(* the port numbers (runs of digits), a path segment, and the single       *)
(* characters ':' and '/'.  In the strings built here two tokens of one    *)
(* class are never adjacent, so the tokens of a string are determined by   *)
(* its characters and the character tests of the code (includes,           *)
(* startsWith, endsWith, slice) are tests on tokens.                       *)
(***************************************************************************)
SchemeWord == {"http", "https"}
HostWord == {"example.com", "127.0.0.1"}
Word == SchemeWord \cup HostWord
PortNumber == {"80", "443", "8080", "11434"}
Segment == {"api"}

\* constants of ./constants, which utils.ts imports (1-10)
PROTOCOLS_HTTPS == "https"
PORTS_HTTPS == "443"
PORTS_HTTP == "80"
OLLAMA_LOCAL_URL == <<"http", ":", "/", "/", "127.0.0.1", ":", "11434">>

\* host.includes('://')
IncludesSchemeMark(s) ==
    \E i \in 1..(Len(s) - 2) : s[i] = ":" /\ s[i + 1] = "/" /\ s[i + 2] = "/"

\* host.startsWith(':')
StartsWithColon(s) == Len(s) >= 1 /\ s[1] = ":"

\* formattedHost.endsWith('/')
EndsWithSlash(s) == Len(s) >= 1 /\ s[Len(s)] = "/"

\* the default port of a special scheme, which URL leaves out of url.port
DefaultPortOf(scheme) == IF scheme = "https" THEN "443" ELSE "80"

\* new URL(s) for the absolute http and https URLs: after `scheme://` the
\* host runs to the first ':' or '/'; an empty host is a TypeError; after ':'
\* come the port's digits, up to a '/' or the end, and anything else there is
\* a TypeError; url.port is empty when no digits were given or when they are
\* the scheme's default port; the rest is the path, '/' when there is none.
URLparse(s) ==
    LET invalid == [valid |-> FALSE, protocol |-> <<>>, hostname |-> <<>>,
                    port |-> <<>>, pathname |-> <<>>]
    IN IF ~(/\ Len(s) >= 5
            /\ s[1] \in SchemeWord
            /\ s[2] = ":" /\ s[3] = "/" /\ s[4] = "/"
            /\ s[5] \in Word)
       THEN invalid
       ELSE LET afterHost == SubSeq(s, 6, Len(s))
                hasColon == afterHost # <<>> /\ afterHost[1] = ":"
                afterColon == IF hasColon THEN Tail(afterHost) ELSE afterHost
                hasDigits == hasColon /\ afterColon # <<>>
                                 /\ afterColon[1] \in PortNumber
                given == IF hasDigits THEN <<afterColon[1]>> ELSE <<>>
                path == IF hasDigits THEN Tail(afterColon) ELSE afterColon
            IN IF path # <<>> /\ path[1] # "/"
               THEN invalid
               ELSE [valid |-> TRUE,
                     protocol |-> <<s[1], ":">>,
                     hostname |-> <<s[5]>>,
                     port |-> IF given = <<DefaultPortOf(s[1])>>
                              THEN <<>> ELSE given,
                     pathname |-> IF path = <<>> THEN <<"/">> ELSE path]

\* 240-244: the leading-colon shorthand
PrependDefaultHost(host) == <<"http", ":", "/", "/", "127.0.0.1">> \o host

\* 238-248: the text handed to new URL, and the flag
Preprocess(host) ==
    LET explicit0 == IncludesSchemeMark(host)
        host1 == IF StartsWithColon(host) THEN PrependDefaultHost(host)
                 ELSE host
        explicit1 == IF StartsWithColon(host) THEN FALSE ELSE explicit0
        host2 == IF ~explicit1 THEN <<"http", ":", "/", "/">> \o host1
                 ELSE host1
    IN [host |-> host2, isExplicitProtocol |-> explicit1]

\* 252-260
PickPort(url, isExplicitProtocol) ==
    IF url.port # <<>> THEN url.port
    ELSE IF ~isExplicitProtocol THEN <<"11434">>
         ELSE IF url.protocol = <<PROTOCOLS_HTTPS, ":">>
              THEN <<PORTS_HTTPS>> ELSE <<PORTS_HTTP>>

\* 263-266: one trailing '/' removed
StripTrailingSlash(s) == IF EndsWithSlash(s) THEN Front(s) ELSE s

\* 233-269.  threw: new URL raised a TypeError.
FormatHost(host) ==
    IF host = <<>> THEN [threw |-> FALSE, value |-> OLLAMA_LOCAL_URL]
    ELSE LET pre == Preprocess(host)
             url == URLparse(pre.host)
         IN IF ~url.valid THEN [threw |-> TRUE, value |-> <<>>]
            ELSE [threw |-> FALSE,
                  value |-> StripTrailingSlash(
                      url.protocol \o <<"/", "/">> \o url.hostname \o <<":">>
                          \o PickPort(url, pre.isExplicitProtocol)
                          \o url.pathname)]

\* longest path of a host string, in tokens
MaxPath == 3

\* the paths: empty, or '/'-led runs of '/' and segments
PathsUpTo(n) ==
    {p \in SeqsUpTo({"/"} \cup Segment, n) :
        /\ p # <<>> => p[1] = "/"
        /\ \A i \in 1..(Len(p) - 1) : ~(p[i] \in Segment /\ p[i + 1] \in Segment)}

\* The host strings of the accepted formats: the empty string, `:<port>`,
\* `<host>`, `<host>:<port>`, `<scheme>://<host>`, `<scheme>://<host>:<port>`,
\* each with a path; also a ':' with no digits after it, and a scheme with
\* no host, which new URL rejects.  Left out are a path with neither host nor
\* port before it (new URL reads its first segment as the host) and
\* `<host>://...` (new URL reads the host as a scheme of its own).
HostShapes ==
    [scheme : {<<>>} \cup {<<w, ":", "/", "/">> : w \in SchemeWord},
     name : {<<>>, <<"example.com">>},
     port : {<<>>, <<":">>} \cup {<<":", n>> : n \in PortNumber},
     path : PathsUpTo(MaxPath)]

HostStrings ==
    {h.scheme \o h.name \o h.port \o h.path :
        h \in {g \in HostShapes :
                  /\ g.name # <<>> \/ g.port # <<>> \/ g.path = <<>>
                  /\ (g.name = <<>> /\ g.scheme # <<>>) => g.path = <<>>
                  /\ (g.name # <<>> /\ g.scheme = <<>> /\ g.port = <<":">>)
                         => ~IncludesSchemeMark(g.port \o g.path)}}

HostInit ==
    /\ PairIdle
    /\ StreamIdle
    /\ HttpIdle
    /\ HeadersIdle
    /\ hostArg \in HostStrings
    /\ hostResult = [threw |-> FALSE, value |-> <<>>]
    /\ hostAgain = [threw |-> FALSE, value |-> <<>>]
    /\ hpc = "call"

\* formatHost(hostArg) returns
Resolve ==
    /\ hpc = "call"
    /\ ~FormatHost(hostArg).threw
    /\ hostResult' = FormatHost(hostArg)
    /\ hpc' = "resolved"
    /\ UNCHANGED <<hostArg, hostAgain>>
    /\ UNCHANGED notHost

\* formatHost(hostArg) ends with the TypeError of new URL
ResolveThrows ==
    /\ hpc = "call"
    /\ FormatHost(hostArg).threw
    /\ hostResult' = FormatHost(hostArg)
    /\ hpc' = "threw"
    /\ UNCHANGED <<hostArg, hostAgain>>
    /\ UNCHANGED notHost

\* the first result is fed back in
ResolveAgain ==
    /\ hpc = "resolved"
    /\ hostAgain' = FormatHost(hostResult.value)
    /\ hpc' = "again"
    /\ UNCHANGED <<hostArg, hostResult>>
    /\ UNCHANGED notHost

HostNext ==
    \/ Resolve
    \/ ResolveThrows
    \/ ResolveAgain

SpecHost == HostInit /\ [][HostNext]_vars

(***************************************************************************)
(* formatHost: properties                                                  *)
(***************************************************************************)
\* the scheme the caller wrote, <<>> when the caller wrote none
SuppliedScheme(h) ==
    IF Len(h) >= 4 /\ h[1] \in SchemeWord
           /\ h[2] = ":" /\ h[3] = "/" /\ h[4] = "/"
    THEN <<h[1]>> ELSE <<>>

\* the port the caller wrote, <<>> when the caller wrote none
SuppliedPort(h) ==
    LET a == IF SuppliedScheme(h) # <<>> THEN SubSeq(h, 5, Len(h)) ELSE h
    IN IF Len(a) >= 2 /\ a[1] = ":" /\ a[2] \in PortNumber THEN <<a[2]>>
       ELSE IF Len(a) >= 3 /\ a[1] \in Word /\ a[2] = ":" /\ a[3] \in PortNumber
            THEN <<a[3]>>
            ELSE <<>>

\* the port the rule of C8 gives
PortByRule(h) ==
    IF SuppliedPort(h) # <<>> THEN SuppliedPort(h)
    ELSE IF SuppliedScheme(h) = <<>> THEN <<"11434">>
         ELSE IF SuppliedScheme(h) = <<"https">> THEN <<"443">> ELSE <<"80">>

\* scheme://hostname:port, then nothing or a path that starts with '/'
HasTargetForm(t) ==
    /\ Len(t) >= 7
    /\ t[1] \in SchemeWord
    /\ t[2] = ":" /\ t[3] = "/" /\ t[4] = "/"
    /\ t[5] \in Word
    /\ t[6] = ":"
    /\ t[7] \in PortNumber
    /\ Len(t) >= 8 => t[8] = "/"

\* the port of a target of that form
TargetPort(t) == IF Len(t) >= 7 THEN <<t[7]>> ELSE <<>>

\* C7: for a non-empty host string that formatHost accepts, formatHost of the
\* result is the result.
C7_Idempotent ==
    (hpc = "again" /\ hostArg # <<>>) =>
        /\ ~hostAgain.threw
        /\ hostAgain.value = hostResult.value

\* C8: the port of the result is the port the input carries, if it carries
\* one; otherwise 11434 when the caller wrote no scheme, and 443 for https or
\* 80 for http when the caller wrote the scheme.
C8_PortRule ==
    (hpc \in {"resolved", "again"} /\ hostArg # <<>>) =>
        TargetPort(hostResult.value) = PortByRule(hostArg)

\* C9: every value formatHost returns is scheme://hostname:port with an
\* optional path and does not end in a slash.
C9_CanonicalForm ==
    hpc \in {"resolved", "again"} =>
        /\ HasTargetForm(hostResult.value)
        /\ ~EndsWithSlash(hostResult.value)

(***************************************************************************)
(* Requests: get, head, post, del over fetchWithHeaders                    *)
(***************************************************************************)
AbortSignal == [t |-> "AbortSignal", v |-> <<"signal">>]

\* typeof input === 'object'
TypeofObject(x) == x.t \in {"null", "object", "array", "Uint8Array"}

\* Array.isArray(input)
IsArray(x) == x.t = "array"

\* 148-150
IsRecord(input) == input.t # "null" /\ TypeofObject(input) /\ ~IsArray(input)

\* a string with its quotes, as JSON writes it
Quoted(pieces) == <<"\"">> \o pieces \o <<"\"">>

\* the members of an object or the items of an array, as JSON writes them:
\* at most one member, whose value is a string, or one item, a string
MembersText(members) ==
    IF members = <<>> THEN <<>>
    ELSE Quoted(<<members[1]>>) \o <<":">> \o Quoted(<<members[2]>>)

ItemsText(items) == IF items = <<>> THEN <<>> ELSE Quoted(<<items[1]>>)

\* the bytes of a typed array as JSON writes them: an object keyed by index
IndexedText(bytes) ==
    IF bytes = <<>> THEN <<>> ELSE Quoted(<<"0">>) \o <<":", bytes[1]>>

\* JSON.stringify(value): undefined for undefined, else the JSON text
JSONstringify(x) ==
    CASE x.t = "undefined" -> Undefined
      [] x.t = "null" -> JsString(<<"null">>)
      [] x.t = "string" -> JsString(Quoted(x.v))
      [] x.t = "object" -> JsString(<<"{">> \o MembersText(x.v) \o <<"}">>)
      [] x.t = "array" -> JsString(<<"[">> \o ItemsText(x.v) \o <<"]">>)
      [] x.t = "Uint8Array" -> JsString(<<"{">> \o IndexedText(x.v) \o <<"}">>)

\* 152
FormattedData(d) == IF IsRecord(d) THEN JSONstringify(d) ELSE d

\* an options object: its method ("undefined" when not set), body, signal
\* and headers (not set, or a set of <<name, value>> pairs)
NoHeaders == [present |-> FALSE, pairs |-> {}]

\* 113: get passes no options, fetchWithHeaders takes its default {}
GetOptions ==
    [method |-> "undefined", body |-> Undefined, signal |-> Undefined,
     headers |-> NoHeaders]

\* 126-128
HeadOptions ==
    [method |-> "HEAD", body |-> Undefined, signal |-> Undefined,
     headers |-> NoHeaders]

\* 154-158
PostOptions(d, signal) ==
    [method |-> "POST", body |-> FormattedData(d), signal |-> signal,
     headers |-> NoHeaders]

\* 176-179
DelOptions(d) ==
    [method |-> "DELETE", body |-> JSONstringify(d), signal |-> Undefined,
     headers |-> NoHeaders]

\* 88-92; version and getPlatform() are not modelled further
DefaultHeaders ==
    {<<"Content-Type", "application/json">>,
     <<"Accept", "application/json">>,
     <<"User-Agent", "ollama-js/<version> (<platform>)">>}

\* 98-101: {...defaultHeaders, ...options.headers}: a later property of the
\* same name replaces the earlier one
SpreadOver(defaults, own) ==
    own \cup {p \in defaults : \A q \in own : q[1] # p[1]}

\* 94-103: the options as fetch receives them
FetchWithHeaders(options) ==
    LET own == IF options.headers.present THEN options.headers.pairs ELSE {}
    IN [options EXCEPT
           !.headers = [present |-> TRUE, pairs |-> SpreadOver(DefaultHeaders, own)]]

\* the `data` arguments the signatures admit: post takes
\* Record<string, unknown> | BodyInit (145), del takes Record<string, unknown>
\* (174); both may be left out
PostData ==
    {Undefined, JsNull, JsString(<<"raw">>), PlainObject(<<>>),
     PlainObject(<<"model", "llama3">>), JsArray(<<"a">>), Uint8ArrayOf(<<"1">>)}

DelData == {Undefined, PlainObject(<<"model", "llama3">>)}

HttpInit ==
    /\ PairIdle
    /\ StreamIdle
    /\ HostIdle
    /\ HeadersIdle
    /\ method \in {"get", "head", "post", "del"}
    /\ data \in (IF method = "post" THEN PostData
                 ELSE IF method = "del" THEN DelData ELSE {Undefined})
    /\ callerSignal \in {Undefined, AbortSignal}
    /\ requests = <<>>
    /\ response = NoResponse
    /\ bodyReads = <<>>
    /\ logs = <<>>
    /\ created = <<>>
    /\ outcome = NoOutcome
    /\ rejected = NoOutcome
    /\ trace = <<>>
    /\ rpc = "call"

\* an entry point hands its options to fetchWithHeaders, which calls fetch
Send(options) ==
    /\ trace' = Append(trace, "fetch called")
    /\ requests' = Append(requests, FetchWithHeaders(options))
    /\ rpc' = "fetch"
    /\ UNCHANGED <<rejected, method, data, callerSignal, response, bodyReads, logs,
                   created, outcome>>
    /\ UNCHANGED notHttp

\* 112-113
GetCall ==
    /\ rpc = "call"
    /\ method = "get"
    /\ Send(GetOptions)

\* 125-128
HeadCall ==
    /\ rpc = "call"
    /\ method = "head"
    /\ Send(HeadOptions)

\* 142-158
PostCall ==
    /\ rpc = "call"
    /\ method = "post"
    /\ Send(PostOptions(data, callerSignal))

\* 171-179
DelCall ==
    /\ rpc = "call"
    /\ method = "del"
    /\ Send(DelOptions(data))

(***************************************************************************)
(* The transport and its Response                                          *)
(***************************************************************************)
\* {"error": "<pieces>"} as text
ErrorBodyText(pieces) ==
    <<"{">> \o Quoted(<<"error">>) \o <<":">> \o Quoted(pieces) \o <<"}">>

BodyTexts ==
    {<<>>, <<"model not found">>, <<"null">>, <<"{", "}">>,
     ErrorBodyText(<<>>), ErrorBodyText(<<"model not found">>)}

Bodies ==
    {[readable |-> FALSE, text |-> <<>>]}
        \cup {[readable |-> TRUE, text |-> t] : t \in BodyTexts}

ContentTypes ==
    {[present |-> FALSE, value |-> <<>>],
     [present |-> TRUE, value |-> <<"application/json">>],
     [present |-> TRUE, value |-> <<"application/json", "; charset=utf-8">>],
     [present |-> TRUE, value |-> <<"text/plain">>]}

StatusLines ==
    {[status |-> 200, statusText |-> <<"OK">>],
     [status |-> 404, statusText |-> <<"Not Found">>],
     [status |-> 500, statusText |-> <<>>]}

\* Response.ok
OkStatus(status) == status \in 200..299

Responses ==
    {[ok |-> OkStatus(l.status), status |-> l.status,
      statusText |-> l.statusText, contentType |-> c, body |-> b] :
        l \in StatusLines, c \in ContentTypes, b \in Bodies}

\* response.json(): rejects when the body cannot be read or is not JSON;
\* otherwise the value: null, or an object with or without an `error` member
ResponseJson(body) ==
    LET t == body.text
        rejects == [rejected |-> TRUE, isNull |-> FALSE, hasError |-> FALSE,
                    error |-> <<>>]
    IN IF ~body.readable THEN rejects
       ELSE IF t = <<"null">>
            THEN [rejected |-> FALSE, isNull |-> TRUE, hasError |-> FALSE,
                  error |-> <<>>]
       ELSE IF t = <<"{", "}">>
            THEN [rejected |-> FALSE, isNull |-> FALSE, hasError |-> FALSE,
                  error |-> <<>>]
       ELSE IF /\ Len(t) >= 8
               /\ SubSeq(t, 1, 6) = <<"{", "\"", "error", "\"", ":", "\"">>
               /\ SubSeq(t, Len(t) - 1, Len(t)) = <<"\"", "}">>
            THEN [rejected |-> FALSE, isNull |-> FALSE, hasError |-> TRUE,
                  error |-> SubSeq(t, 7, Len(t) - 2)]
       ELSE rejects

\* response.text(): rejects when the body cannot be read
ResponseText(body) ==
    [rejected |-> ~body.readable, text |-> body.text]

FetchResolves ==
    /\ trace' = Append(trace, "fetch resolved")
    /\ rpc = "fetch"
    /\ response' \in Responses
    /\ rpc' = "checkOk"
    /\ UNCHANGED <<rejected, method, data, callerSignal, requests, bodyReads, logs,
                   created, outcome>>
    /\ UNCHANGED notHttp

\* what fetch may reject with: the abort of a pending request, a network
\* failure
Rejections ==
    {[kind |-> "AbortError", error |-> <<"The operation was aborted">>,
      status_code |-> 0],
     [kind |-> "TypeError", error |-> <<"fetch failed">>, status_code |-> 0]}

\* the rejection made into a ResponseError on its way to the caller
Wrapped(e) ==
    [kind |-> "ResponseError", error |-> e.error, status_code |-> 0]

\* 113 / 126 / 154 / 176: no try encloses the await of fetchWithHeaders, the
\* value it throws is the value the entry point's promise rejects with
Rethrown(e) == e

\* fetch rejects (network failure, abort): the await at 113 / 126 / 154 / 176
\* throws and the entry point ends with that error
FetchRejects ==
    /\ rpc = "fetch"
    /\ \E e \in Rejections :
          /\ rejected' = e
          /\ outcome' = Rethrown(e)
    /\ trace' = Append(trace, "fetch rejected")
    /\ rpc' = "failed"
    /\ UNCHANGED <<method, data, callerSignal, requests, response, bodyReads,
                   logs, created>>
    /\ UNCHANGED notHttp

(***************************************************************************)
(* checkOk                                                                 *)
(***************************************************************************)
\* 40
DefaultMessage(r) == <<"Error ", ToString(r.status), ": ">> \o r.statusText

\* 43: response.headers.get('content-type')?.includes('application/json')
IsJsonContentType(c) ==
    c.present /\ \E i \in 1..Len(c.value) : c.value[i] = "application/json"

\* `errorData.error || message` with the fallback left out
MessageFromJsonNoFallback(j, message) ==
    IF j.rejected \/ j.isNull THEN message ELSE j.error

\* 44-49: the message after the JSON branch.  Reading `error` of null is a
\* TypeError, which the catch takes like a rejection of json().
MessageFromJson(j, message) ==
    IF j.rejected \/ j.isNull THEN message
    ELSE IF j.hasError /\ j.error # <<>> THEN j.error ELSE message

\* 51-57: the message after the text branch
MessageFromText(x, message) ==
    IF x.rejected THEN message
    ELSE IF x.text # <<>> THEN x.text ELSE message

\* the status taken from somewhere else than the response
NewResponseErrorFixedStatus(message, r) ==
    [kind |-> "ResponseError", error |-> message, status_code |-> 500]

\* 60 (and 17-29)
NewResponseError(message, r) ==
    [kind |-> "ResponseError", error |-> message, status_code |-> r.status]

\* 37-39: the response is ok, checkOk returns
CheckOkReturns ==
    /\ trace' = Append(Append(trace, "checkOk called"), "checkOk returned")
    /\ rpc = "checkOk"
    /\ response.ok
    /\ rpc' = "validated"
    /\ UNCHANGED <<rejected, method, data, callerSignal, requests, response, bodyReads,
                   logs, created, outcome>>
    /\ UNCHANGED notHttp

\* 40-45: not ok, JSON content type: response.json() is awaited
CheckOkReadsJson ==
    /\ trace' = Append(trace, "checkOk called")
    /\ rpc = "checkOk"
    /\ ~response.ok
    /\ IsJsonContentType(response.contentType)
    /\ bodyReads' = Append(bodyReads, "json")
    /\ rpc' = "json"
    /\ UNCHANGED <<rejected, method, data, callerSignal, requests, response, logs,
                   created, outcome>>
    /\ UNCHANGED notHttp

\* the text read without the early return of 37-39 before it
CheckOkReadsTextAlways ==
    /\ trace' = Append(trace, "checkOk called")
    /\ rpc = "checkOk"
    /\ ~IsJsonContentType(response.contentType)
    /\ logs' = Append(logs, "MESSAGES.FETCHING_TEXT")
    /\ bodyReads' = Append(bodyReads, "text")
    /\ rpc' = "text"
    /\ UNCHANGED <<rejected, method, data, callerSignal, requests, response,
                   created, outcome>>
    /\ UNCHANGED notHttp

\* 40-53: not ok, any other content type: response.text() is awaited
CheckOkReadsText ==
    /\ trace' = Append(trace, "checkOk called")
    /\ rpc = "checkOk"
    /\ ~response.ok
    /\ ~IsJsonContentType(response.contentType)
    /\ logs' = Append(logs, "MESSAGES.FETCHING_TEXT")
    /\ bodyReads' = Append(bodyReads, "text")
    /\ rpc' = "text"
    /\ UNCHANGED <<rejected, method, data, callerSignal, requests, response, created,
                   outcome>>
    /\ UNCHANGED notHttp

\* the call started over after a failure response
RetryAfterFailure(err) ==
    /\ trace' = Append(trace, "checkOk threw")
    /\ created' = Append(created, err)
    /\ outcome' = NoOutcome
    /\ rpc' = "call"

\* 60: the error is constructed and thrown; the entry point's await of
\* checkOk (115 / 130 / 160 / 181) throws it on to the caller
Throw(err) ==
    /\ trace' = Append(trace, "checkOk threw")
    /\ created' = Append(created, err)
    /\ outcome' = err
    /\ rpc' = "failed"

\* 45-49, 60: response.json() settles
JsonSettles ==
    /\ rpc = "json"
    /\ LET j == ResponseJson(response.body) IN
          /\ logs' = IF j.rejected \/ j.isNull
                     THEN Append(logs, "MESSAGES.ERROR_JSON_PARSE") ELSE logs
          /\ Throw(NewResponseError(
                 MessageFromJson(j, DefaultMessage(response)), response))
    /\ UNCHANGED <<rejected, method, data, callerSignal, requests, response, bodyReads>>
    /\ UNCHANGED notHttp

\* 53-57, 60: response.text() settles
TextSettles ==
    /\ rpc = "text"
    /\ LET x == ResponseText(response.body) IN
          /\ logs' = IF x.rejected
                     THEN Append(logs, "MESSAGES.ERROR_FETCHING_TEXT") ELSE logs
          /\ Throw(NewResponseError(
                 MessageFromText(x, DefaultMessage(response)), response))
    /\ UNCHANGED <<rejected, method, data, callerSignal, requests, response, bodyReads>>
    /\ UNCHANGED notHttp

\* 117 / 132 / 162 / 183: return response
ReturnResponse ==
    /\ trace' = Append(trace, "response returned")
    /\ rpc = "validated"
    /\ outcome' = [kind |-> "response", error |-> <<>>, status_code |-> 0]
    /\ rpc' = "returned"
    /\ UNCHANGED <<rejected, method, data, callerSignal, requests, response, bodyReads,
                   logs, created>>
    /\ UNCHANGED notHttp

HttpNext ==
    \/ GetCall
    \/ HeadCall
    \/ PostCall
    \/ DelCall
    \/ FetchResolves
    \/ FetchRejects
    \/ CheckOkReturns
    \/ CheckOkReadsJson
    \/ CheckOkReadsText
    \/ JsonSettles
    \/ TextSettles
    \/ ReturnResponse

SpecHttp == HttpInit /\ [][HttpNext]_vars

(***************************************************************************)
(* fetchWithHeaders and the identity of the header objects                 *)
(***************************************************************************)
\* header names and values a caller may pass in a plain object
CallerNames == {"Content-Type", "content-type", "Accept", "X-Request-Id"}
CallerValues == {"text/plain", "application/json"}

\* the plain objects over those names: each name at most once
CallerObjects ==
    UNION {{{<<n, f[n]>> : n \in names} : f \in [names -> CallerValues]} :
              names \in SUBSET CallerNames}

HeadersInit ==
    /\ PairIdle
    /\ StreamIdle
    /\ HostIdle
    /\ HttpIdle
    /\ callerHeaders \in
          {[present |-> FALSE, pairs |-> {}]}
              \cup {[present |-> TRUE, pairs |-> o] : o \in CallerObjects}
    /\ heap = [r \in Refs |-> IF r = "caller" THEN callerHeaders.pairs ELSE {}]
    /\ optionsHeaders = IF callerHeaders.present THEN "caller" ELSE "undefined"
    /\ sentHeaders = "none"
    /\ fpc = "call"

\* 94-96: options.headers = {} when the caller passed none
EnsureHeaders ==
    /\ fpc = "call"
    /\ optionsHeaders' = IF optionsHeaders = "undefined" THEN "empty"
                         ELSE optionsHeaders
    /\ fpc' = "merge"
    /\ UNCHANGED <<callerHeaders, heap, sentHeaders>>
    /\ UNCHANGED notHeaders

\* the defaults and the caller's headers merged into the caller's own object
MergedInPlace(h, own) ==
    [heap |-> [h EXCEPT ![own] = SpreadOver(DefaultHeaders, h[own])],
     ref |-> own]

\* 98-101: the object literal is a new object holding the defaults overlaid
\* with the own properties of options.headers
Merged(h, own) ==
    [heap |-> [h EXCEPT !["merged"] = SpreadOver(DefaultHeaders, h[own])],
     ref |-> "merged"]

\* 98-101: options.headers is assigned the merged object
MergeHeaders ==
    /\ fpc = "merge"
    /\ heap' = Merged(heap, optionsHeaders).heap
    /\ optionsHeaders' = Merged(heap, optionsHeaders).ref
    /\ fpc' = "fetch"
    /\ UNCHANGED <<callerHeaders, sentHeaders>>
    /\ UNCHANGED notHeaders

\* 103: fetch(url, options)
CallFetch ==
    /\ fpc = "fetch"
    /\ sentHeaders' = optionsHeaders
    /\ fpc' = "sent"
    /\ UNCHANGED <<callerHeaders, heap, optionsHeaders>>
    /\ UNCHANGED notHeaders

HeadersNext ==
    \/ EnsureHeaders
    \/ MergeHeaders
    \/ CallFetch

SpecHeaders == HeadersInit /\ [][HeadersNext]_vars

(***************************************************************************)
(* Two invocations of parseJSON on two streams.  The variables of the      *)
(* stream component hold the invocation that is running; `other` holds the *)
(* one that is waiting at an await or a yield.                             *)
(***************************************************************************)
\* the bytes of the two streams: a digit and the newline
PairByte == {NL, DIGIT}

\* the running invocation: its stream, its locals (193-196, 207) and position
Context ==
    [stream |-> stream, chunksRead |-> chunksRead, locked |-> locked,
     buffer |-> buffer, parts |-> parts, yielded |-> yielded,
     warned |-> warned, spc |-> spc, thrown |-> thrown, pulls |-> pulls,
     sawDone |-> sawDone]

\* parseJSON(itr) called, its body not yet started
FreshContext(bytes) == [NoContext EXCEPT !.stream = bytes, !.spc = "start"]

PairInit ==
    /\ HostIdle
    /\ HttpIdle
    /\ HeadersIdle
    /\ stream \in SeqsUpTo(PairByte, MaxPair)
    /\ chunksRead = <<>>
    /\ locked = FALSE
    /\ buffer = <<>>
    /\ parts = <<>>
    /\ yielded = <<>>
    /\ warned = <<>>
    /\ spc = "start"
    /\ thrown = "none"
    /\ pulls = 0
    /\ sawDone = FALSE
    /\ other \in {FreshContext(b) : b \in SeqsUpTo(PairByte, MaxPair)}
    /\ mixed = FALSE

\* an invocation that has read a chunk and has not ended
UnderWay(c) ==
    /\ c.chunksRead # <<>>
    /\ c.spc \in {"read", "loopYield", "flushYield"}

\* one buffer for both invocations: the waiting invocation goes on with the
\* buffer the running one leaves
RestoredSharedBuffer(saved, running) == [saved EXCEPT !.buffer = running.buffer]

\* 193-194: decoder and buffer are declared inside the generator function, so
\* an invocation goes on with the locals it was suspended with
Restored(saved, running) == saved

\* Control passes from the running invocation to the waiting one.  The body
\* between two awaits or yields runs without interruption, so this happens
\* only at reader.read() (199), at a yield (213, 222), before the body has
\* started, or after it has ended.
Switch ==
    /\ other.spc # "idle"
    /\ spc \notin {"loop", "flush"}
    /\ LET c == Restored(other, Context) IN
          /\ stream' = c.stream
          /\ chunksRead' = c.chunksRead
          /\ locked' = c.locked
          /\ buffer' = c.buffer
          /\ parts' = c.parts
          /\ yielded' = c.yielded
          /\ warned' = c.warned
          /\ spc' = c.spc
          /\ thrown' = c.thrown
          /\ pulls' = c.pulls
          /\ sawDone' = c.sawDone
    /\ other' = Context
    /\ mixed' = (mixed \/ (UnderWay(Context) /\ UnderWay(other)))
    /\ UNCHANGED notPair

PairNext ==
    \/ StreamNext
    \/ Switch

SpecPair == PairInit /\ [][PairNext]_vars

(***************************************************************************)
(* The components together                                                 *)
(***************************************************************************)
Init == StreamInit \/ HostInit \/ HttpInit \/ HeadersInit \/ PairInit

Next == StreamNext \/ HostNext \/ HttpNext \/ HeadersNext \/ Switch

Spec == Init /\ [][Next]_vars

(***************************************************************************)
(* Requests: properties                                                    *)
(***************************************************************************)
\* fetch has resolved with a response in this call
HasResponse == response # NoResponse

\* C5: the call returns the response exactly when the response is ok; when it
\* is not, the call fails with the one ResponseError constructed, whose
\* status_code is the response's status, and never returns.
C5_ReturnsIffOk ==
    /\ rpc = "returned" =>
          /\ response.ok
          /\ outcome.kind = "response"
          /\ created = <<>>
    /\ (rpc = "failed" /\ HasResponse) =>
          /\ ~response.ok
          /\ outcome.kind = "ResponseError"
          /\ outcome.status_code = response.status
          /\ created = <<outcome>>
    /\ (HasResponse /\ response.ok) => rpc \in {"checkOk", "validated", "returned"}
    /\ (HasResponse /\ ~response.ok) => rpc \in {"checkOk", "json", "text", "failed"}

\* C5 witness: a del call has failed on a 404 response with a ResponseError
\* of status_code 404.
C5_Witness ==
    /\ rpc = "failed"
    /\ method = "del"
    /\ response.status = 404
    /\ outcome.kind = "ResponseError"
    /\ outcome.status_code = 404

\* the content type names JSON
IndicatesJson(c) == c.present /\ c.value[1] = "application/json"

\* the message by the priority of C6
MessageByPriority(r) ==
    LET default == <<"Error ", ToString(r.status), ": ">> \o r.statusText
        j == ResponseJson(r.body)
        x == ResponseText(r.body)
    IN IF IndicatesJson(r.contentType)
       THEN IF ~j.rejected /\ j.hasError /\ j.error # <<>>
            THEN j.error ELSE default
       ELSE IF ~x.rejected /\ x.text # <<>> THEN x.text ELSE default

\* C6: on a response that is not ok the call fails with a ResponseError, and
\* with no other error, whose message is: for a JSON content type the body's
\* `error` member when the body parses and the member is there and not empty,
\* else `Error {status}: {statusText}`; for another content type the body
\* text when it can be read and is not empty, else that default.
C6_MessagePriority ==
    (rpc = "failed" /\ HasResponse) =>
        /\ outcome.kind = "ResponseError"
        /\ outcome.error = MessageByPriority(response)
        /\ \A i \in 1..Len(created) : created[i].kind = "ResponseError"

\* C6 witness: a 404 with a JSON content type and the body
\* {"error":"model not found"} has failed with the message `model not found`.
C6_Witness ==
    /\ rpc = "failed"
    /\ response.status = 404
    /\ IndicatesJson(response.contentType)
    /\ response.body.text = ErrorBodyText(<<"model not found">>)
    /\ outcome.error = <<"model not found">>

\* C10: post and del hand a plain keyed mapping to the transport as its JSON
\* text and any other supplied body (string, bytes, array) as it is; get and
\* head hand over no body.
C10_BodyAsSupplied ==
    requests # <<>> =>
        LET sent == requests[1].body IN
        /\ method \in {"get", "head"} => sent = Undefined
        /\ (method \in {"post", "del"} /\ data.t = "object") =>
               sent = JsString(<<"{">> \o MembersText(data.v) \o <<"}">>)
        /\ (method \in {"post", "del"}
               /\ data.t \in {"string", "Uint8Array", "array"}) =>
               sent = data

\* C11: whenever the caller holds a cancellation signal for a call of get,
\* head, post or del, the options handed to the transport carry that signal.
C11_SignalForwarded ==
    (requests # <<>> /\ callerSignal # Undefined) =>
        requests[1].signal = callerSignal

\* the places of a step in the trace of the call
Places(step) == {i \in 1..Len(trace) : trace[i] = step}

\* C12: when fetch itself rejects, the call fails with that very value, no
\* ResponseError is constructed and checkOk is not run.
C12_RejectionUnwrapped ==
    rejected # NoOutcome =>
        /\ rpc = "failed"
        /\ outcome = rejected
        /\ created = <<>>
        /\ Places("checkOk called") = {}
        /\ bodyReads = <<>>

\* C12 witness: a post call whose caller holds a signal has failed with the
\* AbortError fetch rejected with.
C12_Witness ==
    /\ rpc = "failed"
    /\ method = "post"
    /\ callerSignal = AbortSignal
    /\ rejected.kind = "AbortError"
    /\ outcome.kind = "AbortError"

\* C15: within one call fetch is invoked at most once, and exactly once by the
\* time the call has ended, whatever the response or rejection; checkOk is
\* called only after fetch has resolved; the response is returned only after
\* checkOk has returned.
C15_OnceAndInOrder ==
    /\ Len(requests) <= 1
    /\ Cardinality(Places("fetch called")) = Len(requests)
    /\ rpc \in {"returned", "failed"} => Len(requests) = 1
    /\ \A i \in Places("checkOk called") :
          \E j \in Places("fetch resolved") : j < i
    /\ \A i \in Places("response returned") :
          \E j \in Places("checkOk returned") : j < i

\* C15 witness: a call has returned its response after one fetch and one
\* checkOk, in that order.
C15_Witness ==
    /\ rpc = "returned"
    /\ trace = <<"fetch called", "fetch resolved", "checkOk called",
                 "checkOk returned", "response returned">>

\* C16: on an ok response no body reader is invoked, so the response returned
\* has its body unread; on a response that is not ok at most one reader is
\* invoked, once.
C16_BodyUnreadOnSuccess ==
    /\ (HasResponse /\ response.ok) => bodyReads = <<>>
    /\ rpc = "returned" => bodyReads = <<>>
    /\ Len(bodyReads) <= 1
    /\ bodyReads # <<>> => (HasResponse /\ ~response.ok)

\* C16 witness: a response with a readable, non-empty body has been returned
\* with no reader invoked on it.
C16_Witness ==
    /\ rpc = "returned"
    /\ response.body.readable
    /\ response.body.text # <<>>
    /\ bodyReads = <<>>

(***************************************************************************)
(* fetchWithHeaders: properties                                            *)
(***************************************************************************)
\* a header name in lower case
Lower(n) ==
    CASE n = "Content-Type" -> "content-type"
      [] n = "Accept" -> "accept"
      [] n = "User-Agent" -> "user-agent"
      [] n = "X-Request-Id" -> "x-request-id"
      [] OTHER -> n

SameName(m, n) == Lower(m) = Lower(n)

\* C13: the request carries each default header the caller did not supply,
\* and for every header the caller supplies, names compared without regard to
\* case, the caller's value and no default value under that name.
C13_CallerHeadersWin ==
    fpc = "sent" =>
        LET sent == heap[sentHeaders]
            own == callerHeaders.pairs
        IN /\ \A d \in DefaultHeaders :
                 (\A c \in own : ~SameName(c[1], d[1])) => d \in sent
           /\ \A c \in own :
                 /\ c \in sent
                 /\ \A d \in DefaultHeaders :
                       (SameName(d[1], c[1]) /\ d \in sent) => d \in own

\* C14: the object the caller passed as headers keeps its names and values,
\* and the headers fetch is given are another object, built by the call.
C14_CallerObjectUntouched ==
    /\ heap["caller"] = callerHeaders.pairs
    /\ fpc = "sent" => (sentHeaders # "caller" /\ sentHeaders = "merged")

\* C14 witness: fetch was given headers that differ from the non-empty headers
\* the caller passed, whose object is as it was.
C14_Witness ==
    /\ fpc = "sent"
    /\ callerHeaders.present
    /\ callerHeaders.pairs # {}
    /\ heap["caller"] = callerHeaders.pairs
    /\ heap[sentHeaders] # heap["caller"]

(***************************************************************************)
(* Two invocations of parseJSON: properties                                *)
(***************************************************************************)
\* s is a prefix of t
IsPrefix(s, t) == Len(s) <= Len(t) /\ s = SubSeq(t, 1, Len(s))

\* what holds of an invocation that runs alone: its buffer and the values it
\* has yielded are determined by the chunks of its own stream
Alone(c) ==
    LET text == DecodedChunks(c.chunksRead)
        complete == Front(SplitNL(text))
        all == complete \o FilterNonEmpty(<<Last(SplitNL(text))>>)
    IN /\ c.spc \in {"read", "loop", "loopYield"} =>
             /\ c.buffer = Last(SplitNL(text))
             /\ c.yielded \o ParsedOf(c.parts) = ParsedOf(complete)
             /\ c.warned \o InvalidOf(c.parts) = InvalidOf(complete)
       /\ c.spc \in {"flush", "flushYield", "done"} =>
             /\ c.yielded \o ParsedOf(c.parts) = ParsedOf(all)
             /\ c.warned \o InvalidOf(c.parts) = InvalidOf(all)
       /\ c.spc \in {"returned", "failed"} => IsPrefix(c.yielded, ParsedOf(all))
       /\ c.spc = "done" => c.stream = <<>>

\* C18: of two invocations on two streams, interleaved at their awaits and
\* yields in any order, each has the buffer and has yielded the values that
\* the chunks of its own stream determine, as when it runs alone.
C18_InvocationsIndependent ==
    /\ Alone(Context)
    /\ Alone(other)

\* C18 witness: both invocations ended normally having yielded different,
\* non-empty sequences, after control changed hands while both had read a
\* chunk and neither had ended.
C18_Witness ==
    /\ mixed
    /\ spc = "done"
    /\ other.spc = "done"
    /\ yielded # <<>>
    /\ other.yielded # <<>>
    /\ yielded # other.yielded
    /\ yielded = RecordsOfText(Flatten(chunksRead))
    /\ other.yielded = RecordsOfText(Flatten(other.chunksRead))

====
